---- MODULE Spec2Model ----
(***************************************************************************)
(* A model of scripts/validate_agent_specs.py: the agent specification     *)
(* validator (AgentSpecValidator) and its entry point main.                *)
(*                                                                         *)
(* Text.  A Python str is modelled as a sequence of atoms.  An atom is a   *)
(* TLA+ string standing for that run of characters of the text: the        *)
(* single characters "#", " ", "\n", ".", ":", the emphasis marker "**",   *)
(* the backquote (Backquote), and words ("Owner", "agent", "a", ...).  No  *)
(* word                                                                    *)
(* contains a character the validator's patterns look for, so every        *)
(* pattern of the source matches the text exactly where its atom sequence  *)
(* matches the atom sequence of the text.                                  *)
(***************************************************************************)
EXTENDS Integers, Sequences, FiniteSets, TLC

VARIABLES
    pc,            \* position of the run: main, validate_all, the loop, print_summary, exit
    dirExists,     \* self.agents_dir.exists()
    dir,           \* the directory: file name -> [readable, content]
    agent_files,   \* validate_all's list agent_files, in the order glob yielded it
    queue,         \* the files of sorted(agent_files) the loop has not reached yet
    errors,        \* self.errors
    success,       \* validate_all's return value
    exitCode,      \* the status handed to sys.exit (-1: not exited)
    stdout,        \* what was printed, one record a print
    runs,          \* calls of validate_all made on the validator
    firstErrors,   \* self.errors when the first call of validate_all returned
    firstSuccess,  \* what the first call of validate_all returned
    tpc,           \* position of the single-document harness
    filename,      \* filepath.name of the document under validation
    content,       \* the text of the document under validation
    sections,      \* the Section Map _extract_sections returned for content
    typed,         \* edits made to content
    prevErrors,    \* the findings of the document before a heading was deleted
    removed        \* the required section whose heading was deleted (<<>>: none)

vars == <<pc, dirExists, dir, agent_files, queue, errors, success, exitCode,
          stdout, runs, firstErrors, firstSuccess, tpc, filename, content,
          sections, typed, prevErrors, removed>>

runVars == <<pc, dirExists, dir, agent_files, queue, success, exitCode,
             stdout, runs, firstErrors, firstSuccess>>

textVars == <<tpc, filename, content, sections, typed, prevErrors, removed>>

----------------------------------------------------------------------------
(* The compiled-in tables.                                                 *)

REQUIRED_SECTIONS ==
    << "Agent Name", "Overview", "Responsibilities", "Capabilities",
       "Triggers & Activation", "Operational Guidelines",
       "Telemetry & Monitoring", "Safety & Security", "Integration Points",
       "Runbooks & Documentation", "Ownership & Maintenance", "Change Log" >>

\* A dict, iterated in insertion order: a sequence of (key, value) items.
REQUIRED_SUBSECTIONS ==
    << [section |-> "Responsibilities",
        subsections |-> <<"Primary Responsibilities", "Secondary Responsibilities">>],
       [section |-> "Capabilities",
        subsections |-> <<"Core Capabilities", "Technical Skills">>],
       [section |-> "Operational Guidelines",
        subsections |-> <<"Decision Framework", "Quality Standards", "Constraints">>],
       [section |-> "Telemetry & Monitoring",
        subsections |-> <<"Events to Track", "Metrics to Monitor", "Monitoring Dashboard">>],
       [section |-> "Safety & Security",
        subsections |-> <<"Safety Considerations", "Security Requirements", "Failure Handling">>],
       [section |-> "Integration Points",
        subsections |-> <<"Dependencies", "Interactions with Other Agents">>],
       [section |-> "Runbooks & Documentation",
        subsections |-> <<"Runbook Links", "Related Documentation">>],
       [section |-> "Ownership & Maintenance", subsections |-> <<>>] >>

REQUIRED_OWNERSHIP_FIELDS ==
    <<"Owner", "Backup Owner", "Last Updated", "Review Frequency">>

\* content[:500] in _check_role_field
RoleWindow == 500

----------------------------------------------------------------------------
(* Strings.                                                                *)

\* The atoms \s matches and str.strip() strips.
WhiteSpace == {" ", "\n", "\t"}

\* The atoms made of characters of the class [a-z-] only.
LowerHyphen == {"a", "b", "x", "y", "-", "agent", "md"}

\* A paragraph of prose, 600 characters long, written as one atom.
Prose == "Lorem ipsum"

\* The backquote character, which a TLA+ string cannot hold.
Backquote == "backquote"

\* len() of the characters an atom stands for.
CharLen(a) ==
    IF a = Prose THEN 600 ELSE IF a = Backquote THEN 1 ELSE Len(a)

\* The str a name of the tables is: one word.
Str(word) == <<word>>

RECURSIVE Concat(_)
\* ''.join(parts)
Concat(parts) ==
    IF parts = <<>> THEN <<>> ELSE Head(parts) \o Concat(Tail(parts))

\* s[i:].startswith(pat), i counted from 1
StartsWithAt(s, i, pat) ==
    /\ i >= 1
    /\ i + Len(pat) - 1 <= Len(s)
    /\ SubSeq(s, i, i + Len(pat) - 1) = pat

\* pat in s
Contains(s, pat) ==
    \E i \in 1..(Len(s) - Len(pat) + 1) : StartsWithAt(s, i, pat)

\* The least element of a non-empty set of integers.
Min(S) == CHOOSE m \in S : \A k \in S : m <= k

RECURSIVE Split(_)
\* s.split('\n'): the pieces between the newlines, at least one piece
Split(s) ==
    LET nl == {i \in 1..Len(s) : s[i] = "\n"}
    IN  IF nl = {} THEN <<s>>
        ELSE <<SubSeq(s, 1, Min(nl) - 1)>>
                 \o Split(SubSeq(s, Min(nl) + 1, Len(s)))

RECURSIVE Join(_)
\* '\n'.join(lines)
Join(lines) ==
    IF lines = <<>> THEN <<>>
    ELSE IF Len(lines) = 1 THEN lines[1]
    ELSE lines[1] \o <<"\n">> \o Join(Tail(lines))

\* s.strip()
Strip(s) ==
    LET keep == {i \in 1..Len(s) : s[i] \notin WhiteSpace}
    IN  IF keep = {} THEN <<>>
        ELSE SubSeq(s, Min(keep), CHOOSE m \in keep : \A k \in keep : k <= m)

\* The index after the run of whitespace that starts at p (Len(s) + 1: the
\* run reaches the end of s).
SkipSpace(s, p) ==
    Min({q \in p..(Len(s) + 1) :
            q = Len(s) + 1 \/ s[q] \notin WhiteSpace})

RECURSIVE CharCount(_, _, _)
\* len() of the atoms lo..hi of s, summed by halves.
CharCount(s, lo, hi) ==
    IF lo > hi THEN 0
    ELSE IF lo = hi THEN CharLen(s[lo])
    ELSE LET mid == (lo + hi) \div 2
         IN  CharCount(s, lo, mid) + CharCount(s, mid + 1, hi)

\* The number of characters before atom i of s.
Offset(s, i) == CharCount(s, 1, i - 1)

----------------------------------------------------------------------------
(* Findings.                                                               *)

\* details holds the values the source's f-string interpolates.
ValidationError(name, error_type, details) ==
    [filename |-> name, error_type |-> error_type, details |-> details]

----------------------------------------------------------------------------
(* The Section Map: a dict, kept as the sequence of its items in insertion *)
(* order.                                                                  *)

Has(d, key) == \E i \in 1..Len(d) : d[i].name = key

Get(d, key) == d[CHOOSE i \in 1..Len(d) : d[i].name = key].body

\* A store that keeps the value a key already has (dict.setdefault).
PutFirstWins(d, key, body) ==
    IF Has(d, key) THEN d ELSE Append(d, [name |-> key, body |-> body])

\* d[key] = body: an existing key keeps its place and takes the new value.
Put(d, key, body) ==
    IF Has(d, key)
    THEN [i \in 1..Len(d) |->
             IF d[i].name = key THEN [name |-> key, body |-> body] ELSE d[i]]
    ELSE Append(d, [name |-> key, body |-> body])

\* re.match(r'^##\s+(.+)$', line), for a line that holds no "\n".  \s+ takes
\* the whole run of whitespace, and gives its last character back to (.+)
\* when nothing follows the run.
HeaderMatch(line) ==
    LET n == Len(line)
        ok == /\ n >= 4
              /\ line[1] = "#"
              /\ line[2] = "#"
              /\ line[3] \in WhiteSpace
        q == SkipSpace(line, 3)
        start == IF q <= n THEN q ELSE n
    IN  [match |-> ok, group |-> IF ok THEN SubSeq(line, start, n) ELSE <<>>]

\* current_section: None, or the name of the section that is open.
None == [open |-> FALSE, name |-> <<>>]
Some(name) == [open |-> TRUE, name |-> name]

\* if current_section: None and "" are both false
Truthy(cs) == cs.open /\ cs.name # <<>>

RECURSIVE ExtractLoop(_, _, _, _)
\* The loop of _extract_sections over the lines left, and the final save.
ExtractLoop(lines, secs, current_section, current_content) ==
    IF lines = <<>>
    THEN IF Truthy(current_section)
         THEN Put(secs, current_section.name, Join(current_content))
         ELSE secs
    ELSE LET line == Head(lines)
             m == HeaderMatch(line)
         IN  IF m.match
             THEN ExtractLoop(Tail(lines),
                              IF Truthy(current_section)
                              THEN Put(secs, current_section.name,
                                       Join(current_content))
                              ELSE secs,
                              Some(Strip(m.group)), <<>>)
             ELSE IF Truthy(current_section)
             THEN ExtractLoop(Tail(lines), secs, current_section,
                              Append(current_content, line))
             ELSE ExtractLoop(Tail(lines), secs, current_section,
                              current_content)

extract_sections(text) == ExtractLoop(Split(text), <<>>, None, <<>>)

----------------------------------------------------------------------------
(* The five checks.  Each returns the findings it appends to self.errors.  *)

RECURSIVE RequiredSectionsLoop(_, _, _)
RequiredSectionsLoop(name, secs, required) ==
    IF required = <<>> THEN <<>>
    ELSE (IF ~Has(secs, Str(Head(required)))
          THEN <<ValidationError(name, "MISSING_SECTION", <<Head(required)>>)>>
          ELSE <<>>)
         \o RequiredSectionsLoop(name, secs, Tail(required))

check_required_sections(name, secs) ==
    RequiredSectionsLoop(name, secs, REQUIRED_SECTIONS)

RECURSIVE SubsectionLoop(_, _, _, _)
\* The inner loop: f"### {subsection}" not in section_content
SubsectionLoop(name, section, section_content, subsections) ==
    IF subsections = <<>> THEN <<>>
    ELSE (IF ~Contains(section_content,
                       <<"#", "#", "#", " ">> \o Str(Head(subsections)))
          THEN <<ValidationError(name, "MISSING_SUBSECTION",
                                 <<Head(subsections), section>>)>>
          ELSE <<>>)
         \o SubsectionLoop(name, section, section_content, Tail(subsections))

RECURSIVE RequiredSubsectionsLoop(_, _, _)
RequiredSubsectionsLoop(name, secs, items) ==
    IF items = <<>> THEN <<>>
    ELSE (IF ~Has(secs, Str(Head(items).section))
          THEN <<>>
          ELSE SubsectionLoop(name, Head(items).section,
                              Get(secs, Str(Head(items).section)),
                              Head(items).subsections))
         \o RequiredSubsectionsLoop(name, secs, Tail(items))

check_required_subsections(name, text, secs) ==
    RequiredSubsectionsLoop(name, secs, REQUIRED_SUBSECTIONS)

\* re.search(header + r'\s+(.+?)(?=\n##|\Z)', text, re.DOTALL), and the same
\* with the lookahead (?=\n###|\n##|\Z), which looks for the same places.
\* The match starts at the first occurrence of header that whitespace and
\* one more character follow.  \s+ takes the whole run of whitespace (less
\* its last character, which it gives back to the group, when the run
\* reaches the end of the text); the group then runs to the first "\n##"
\* after its first character, or to the end of the text.
SectionSearch(text, header) ==
    LET n == Len(text)
        h == Len(header)
        starts == {i \in 1..n :
                      /\ StartsWithAt(text, i, header)
                      /\ i + h <= n
                      /\ text[i + h] \in WhiteSpace
                      /\ \/ SkipSpace(text, i + h) <= n
                         \/ SkipSpace(text, i + h) - (i + h) >= 2}
        i0 == Min(starts)
        q == SkipSpace(text, i0 + h)
        s == IF q <= n THEN q ELSE n
        e == Min({p \in (s + 1)..(n + 1) :
                     p = n + 1 \/ StartsWithAt(text, p, <<"\n", "#", "#">>)})
    IN  IF starts = {} THEN [match |-> FALSE, group |-> <<>>]
        ELSE [match |-> TRUE, group |-> SubSeq(text, s, e - 1)]

RECURSIVE OwnershipLoop(_, _, _)
\* re.search(f"\\*\\*{re.escape(field)}\\*\\*:", ownership_content)
OwnershipLoop(name, ownership_content, fields) ==
    IF fields = <<>> THEN <<>>
    ELSE (IF ~Contains(ownership_content,
                       <<"**">> \o Str(Head(fields)) \o <<"**", ":">>)
          THEN <<ValidationError(name, "MISSING_FIELD", <<Head(fields)>>)>>
          ELSE <<>>)
         \o OwnershipLoop(name, ownership_content, Tail(fields))

check_ownership_fields(name, text) ==
    LET ownership_match ==
            SectionSearch(text, <<"#", "#", " ", "Ownership & Maintenance">>)
    IN  IF ~ownership_match.match THEN <<>>
        ELSE OwnershipLoop(name, ownership_match.group,
                           REQUIRED_OWNERSHIP_FIELDS)

\* re.search(r'\*\*Role\*\*:', content[:500]): the label lies whole within
\* the first 500 characters.
check_role_field(name, text) ==
    LET label == <<"**", "Role", "**", ":">>
        found == \E i \in 1..Len(text) :
                    /\ StartsWithAt(text, i, label)
                    /\ Offset(text, i + Len(label)) <= RoleWindow
    IN  IF ~found
        THEN <<ValidationError(name, "MISSING_FIELD", <<"Role">>)>>
        ELSE <<>>

\* Path(filename).stem: the name without its last suffix; a name that
\* starts or ends with its last "." has no suffix.
Stem(name) ==
    LET dots == {i \in 1..Len(name) : name[i] = "."}
        last == CHOOSE m \in dots : \A k \in dots : k <= m
    IN  IF dots = {} THEN name
        ELSE IF last = 1 \/ last = Len(name) THEN name
        ELSE SubSeq(name, 1, last - 1)

RECURSIVE FindEvents(_, _)
\* re.findall(event_pattern, s) from atom i on, the tokens in order, for
\* event_pattern: a backquote, agent\.([a-z-]+)\.
\* The scan goes on to the next place the fixed prefix stands; [a-z-]+
\* takes the whole run of the class, and a "." has to follow it; the scan
\* resumes after a match, or one character on where the prefix led nowhere.
FindEvents(s, i) ==
    LET prefix == <<Backquote, "agent", ".">>
        at == {p \in i..Len(s) : StartsWithAt(s, p, prefix)}
        p0 == Min(at)
        r == Min({q \in (p0 + 3)..(Len(s) + 1) :
                     q = Len(s) + 1 \/ s[q] \notin LowerHyphen})
    IN  IF at = {} THEN <<>>
        ELSE IF r > p0 + 3 /\ r <= Len(s) /\ s[r] = "."
        THEN <<SubSeq(s, p0 + 3, r - 1)>> \o FindEvents(s, r + 1)
        ELSE FindEvents(s, p0 + 1)

check_telemetry_events(name, text) ==
    LET events_match ==
            SectionSearch(text, <<"#", "#", "#", " ", "Events to Track">>)
        agent_name == Stem(name)
        events == FindEvents(events_match.group, 1)
        correct_events == {i \in 1..Len(events) : events[i] = agent_name}
    IN  IF ~events_match.match THEN <<>>
        ELSE IF events # <<>> /\ correct_events = {}
        THEN <<ValidationError(name, "TELEMETRY_NAMING", agent_name)>>
        ELSE <<>>

\* What validate_file appends to self.errors for a file that was read.
FileChecks(name, text) ==
    LET secs == extract_sections(text)
    IN  check_required_sections(name, secs)
        \o check_required_subsections(name, text, secs)
        \o check_ownership_fields(name, text)
        \o check_role_field(name, text)
        \o check_telemetry_events(name, text)

\* validate_file without the return that ends its except branch: the checks
\* go on after the READ_ERROR, on an empty text.
validate_file_no_return(name, file) ==
    IF ~file.readable
    THEN <<ValidationError(name, "READ_ERROR", <<"Failed to read file">>)>>
         \o FileChecks(name, <<>>)
    ELSE FileChecks(name, file.content)

\* What validate_file appends to self.errors: file is [readable, content].
validate_file(name, file) ==
    IF ~file.readable
    THEN <<ValidationError(name, "READ_ERROR", <<"Failed to read file">>)>>
    ELSE FileChecks(name, file.content)

----------------------------------------------------------------------------
(* Documents and directories the validator is run on.                      *)

MaxFiles == 3      \* files in the directory
MaxRuns == 2       \* calls of validate_all on one validator
MaxFrags == 4      \* fragments typed into a text
MaxInserts == 1    \* lines inserted into the conforming document

NameA == <<"a", ".", "md">>
NameAB == <<"a", "-", "b", ".", "md">>
NameB == <<"b", ".", "md">>
TemplateName == <<"TEMPLATE", ".", "md">>
ReadmeName == <<"README", ".", "md">>
NotesName == <<"a", ".", "txt">>

\* '#' * level + ' ' + title
Heading(level, title) == [i \in 1..level |-> "#"] \o <<" ", title>>

\* A label line: **field**: x
FieldLine(field) == <<"**", field, "**", ":", " ", "x">>

\* A telemetry event in a code span: agent.<token>.x between backquotes
EventLine(token) ==
    <<Backquote, "agent", ".">> \o token \o <<".", "x", Backquote>>

\* REQUIRED_SUBSECTIONS.get(section, [])
SubsectionsOf(section) ==
    LET at == {i \in 1..Len(REQUIRED_SUBSECTIONS) :
                  REQUIRED_SUBSECTIONS[i].section = section}
    IN  IF at = {} THEN <<>> ELSE REQUIRED_SUBSECTIONS[Min(at)].subsections

\* The lines of the template filled in for the agent named by token: every
\* required section with its subsections in the order of the tables, the
\* Role label under the first heading, one event under Events to Track, the
\* four fields under Ownership & Maintenance.
GoodSection(token, section) ==
    <<Heading(2, section)>>
    \o (IF section = REQUIRED_SECTIONS[1] THEN <<FieldLine("Role")>> ELSE <<>>)
    \o Concat([i \in 1..Len(SubsectionsOf(section)) |->
                  <<Heading(3, SubsectionsOf(section)[i])>>
                  \o (IF SubsectionsOf(section)[i] = "Events to Track"
                      THEN <<EventLine(token)>> ELSE <<>>)])
    \o (IF section = "Ownership & Maintenance"
        THEN [i \in 1..Len(REQUIRED_OWNERSHIP_FIELDS) |->
                 FieldLine(REQUIRED_OWNERSHIP_FIELDS[i])]
        ELSE <<>>)

GoodLines(token) ==
    Concat([i \in 1..Len(REQUIRED_SECTIONS) |->
               GoodSection(token, REQUIRED_SECTIONS[i])])

\* The text of a file with these lines, each ended by a newline.
TextOf(lines) == Concat([i \in 1..Len(lines) |-> lines[i] \o <<"\n">>])

\* lines without line i
DropLine(lines, i) ==
    SubSeq(lines, 1, i - 1) \o SubSeq(lines, i + 1, Len(lines))

\* lines with line l put before line i
PutLine(lines, i, l) ==
    SubSeq(lines, 1, i - 1) \o <<l>> \o SubSeq(lines, i, Len(lines))

GoodDoc == TextOf(GoodLines(<<"a">>))

\* GoodDoc without its last heading, "## Change Log"
NoChangeLogDoc ==
    TextOf(SelectSeq(GoodLines(<<"a">>),
                     LAMBDA l : l # Heading(2, "Change Log")))

\* What a file of the directory can be: unreadable, or one of three texts.
FileStates ==
    {[readable |-> FALSE, content |-> <<>>]}
    \cup {[readable |-> TRUE, content |-> t] :
             t \in {GoodDoc, NoChangeLogDoc, <<>>}}

\* The directories: at most MaxFiles files, no two of one name.  Only the
\* agent specifications vary in what they hold.
Directories ==
    LET files == {[name |-> n, file |-> f] : n \in {NameA, NameAB, NameB}, f \in FileStates}
                 \cup {[name |-> n, file |-> [readable |-> TRUE, content |-> <<>>]] :
                          n \in {TemplateName, ReadmeName, NotesName}}
    IN  {D \in SUBSET files :
            /\ Cardinality(D) <= MaxFiles
            /\ \A x, y \in D : x.name = y.name => x = y}

\* The file of directory D named n.
FileOf(D, n) == (CHOOSE x \in D : x.name = n).file

----------------------------------------------------------------------------
(* The run: main, validate_all, print_summary, sys.exit.                   *)

\* ord() of the first character of an atom of a file name.  No two of these
\* atoms start alike, so comparing names atom by atom compares the strings.
Ord(a) ==
    CASE a = "-" -> 45
      [] a = "." -> 46
      [] a = "README" -> 82
      [] a = "TEMPLATE" -> 84
      [] a = "a" -> 97
      [] a = "b" -> 98
      [] a = "md" -> 109
      [] a = "txt" -> 116

\* x < y for two paths of one directory: their names compared as strings.
PathLess(x, y) ==
    \E k \in 1..(Len(x) + 1) :
        /\ k <= Len(y)
        /\ \A j \in 1..(k - 1) : x[j] = y[j]
        /\ k = Len(x) + 1 \/ Ord(x[k]) < Ord(y[k])

\* The list as glob yielded it, not sorted.
Unsorted(files) == files

\* sorted(files), for a list of distinct paths: each path stands after the
\* paths less than it.
Sorted(files) ==
    LET S == {files[i] : i \in 1..Len(files)}
    IN  [k \in 1..Len(files) |->
            CHOOSE x \in S : Cardinality({y \in S : PathLess(y, x)}) = k - 1]

\* fnmatch of name against "*.md"
IsMarkdown(name) ==
    Len(name) >= 2 /\ SubSeq(name, Len(name) - 1, Len(name)) = <<".", "md">>

\* The files agent_files keeps: glob("*.md") less the two excluded names.
AgentFileNames(D) ==
    {x.name : x \in {y \in D : /\ IsMarkdown(y.name)
                               /\ y.name # TemplateName
                               /\ y.name # ReadmeName}}

\* The orders glob can yield the files of S in.
Orders(S) ==
    {f \in [1..Cardinality(S) -> S] :
        \A i, j \in 1..Cardinality(S) : f[i] = f[j] => i = j}

Printed(text, name, n) == [text |-> text, name |-> name, n |-> n]

InitRun ==
    /\ pc = "main"
    /\ dirExists \in BOOLEAN
    /\ dir \in Directories
    /\ ~dirExists => dir = {}
    /\ agent_files = <<>>
    /\ queue = <<>>
    /\ errors = <<>>
    /\ success = FALSE
    /\ exitCode = -1
    /\ stdout = <<>>
    /\ runs = 0
    /\ firstErrors = <<>>
    /\ firstSuccess = FALSE

IdleText ==
    /\ tpc = "idle"
    /\ filename = <<>>
    /\ content = <<>>
    /\ sections = <<>>
    /\ typed = 0
    /\ prevErrors = <<>>
    /\ removed = <<>>

Init == InitRun /\ IdleText

\* main up to the call of validate_all: the banner, and a new validator.
Main ==
    /\ pc = "main"
    /\ stdout' = Append(stdout, Printed("Agent Specification Validator", <<>>, 0))
    /\ errors' = <<>>
    /\ pc' = "validate_all"
    /\ UNCHANGED <<dirExists, dir, agent_files, queue, success, exitCode,
                   runs, firstErrors, firstSuccess>>
    /\ UNCHANGED textVars

\* validate_all up to its loop: the two early returns, or the list of
\* files, in whatever order glob yields them, and its sorted copy.
ValidateAllBegin ==
    /\ pc = "validate_all"
    /\ runs' = runs + 1
    /\ IF ~dirExists
       THEN /\ stdout' = Append(stdout, Printed("Error: Directory does not exist", <<>>, 0))
            /\ success' = FALSE
            /\ pc' = "print_summary"
            /\ UNCHANGED <<agent_files, queue>>
       ELSE IF AgentFileNames(dir) = {}
       THEN /\ agent_files' = <<>>
            /\ stdout' = Append(stdout, Printed("Warning: No agent specification files found", <<>>, 0))
            /\ success' = TRUE
            /\ pc' = "print_summary"
            /\ UNCHANGED queue
       ELSE /\ agent_files' \in Orders(AgentFileNames(dir))
            /\ stdout' = Append(stdout, Printed("Validating agent specification(s)", <<>>,
                                                Len(agent_files')))
            /\ queue' = Sorted(agent_files')
            /\ pc' = "loop"
            /\ UNCHANGED success
    /\ UNCHANGED <<dirExists, dir, errors, exitCode, firstErrors, firstSuccess>>
    /\ UNCHANGED textVars

\* One turn of validate_all's loop: validate_file on the next file.
ValidateFile ==
    /\ pc = "loop"
    /\ queue # <<>>
    /\ stdout' = Append(stdout, Printed("Validating", Head(queue), 0))
    /\ errors' = errors \o validate_file(Head(queue), FileOf(dir, Head(queue)))
    /\ queue' = Tail(queue)
    /\ UNCHANGED <<pc, dirExists, dir, agent_files, success, exitCode, runs,
                   firstErrors, firstSuccess>>
    /\ UNCHANGED textVars

\* A verdict that passes whatever was found.
VerdictAlwaysPass(errs) == TRUE

\* len(self.errors) == 0
Verdict(errs) == Len(errs) = 0

\* The loop is over: return len(self.errors) == 0
ValidateAllReturn ==
    /\ pc = "loop"
    /\ queue = <<>>
    /\ success' = Verdict(errors)
    /\ pc' = "print_summary"
    /\ UNCHANGED <<dirExists, dir, agent_files, queue, errors, exitCode,
                   stdout, runs, firstErrors, firstSuccess>>
    /\ UNCHANGED textVars

\* print_summary: the list of failures, or the pass banner.
PrintSummary ==
    /\ pc = "print_summary"
    /\ stdout' = Append(stdout,
                        IF errors # <<>>
                        THEN Printed("Validation failed with error(s)", <<>>, Len(errors))
                        ELSE Printed("All agent specifications passed validation!", <<>>, 0))
    /\ pc' = "exit"
    /\ UNCHANGED <<dirExists, dir, agent_files, queue, errors, success,
                   exitCode, runs, firstErrors, firstSuccess>>
    /\ UNCHANGED textVars

\* sys.exit(0 if success else 1)
Exit ==
    /\ pc = "exit"
    /\ exitCode' = (IF success THEN 0 ELSE 1)
    /\ pc' = "done"
    /\ UNCHANGED <<dirExists, dir, agent_files, queue, errors, success,
                   stdout, runs, firstErrors, firstSuccess>>
    /\ UNCHANGED textVars

Next ==
    \/ Main
    \/ ValidateAllBegin
    \/ ValidateFile
    \/ ValidateAllReturn
    \/ PrintSummary
    \/ Exit

Spec == Init /\ [][Next]_vars

\* A caller that keeps the validator and calls validate_all on it again.
ValidateAllAgain ==
    /\ pc = "print_summary"
    /\ runs < MaxRuns
    /\ firstErrors' = (IF runs = 1 THEN errors ELSE firstErrors)
    /\ firstSuccess' = (IF runs = 1 THEN success ELSE firstSuccess)
    /\ pc' = "validate_all"
    /\ UNCHANGED <<dirExists, dir, agent_files, queue, errors, success,
                   exitCode, stdout, runs>>
    /\ UNCHANGED textVars

NextTwice == Next \/ ValidateAllAgain

SpecTwice == Init /\ [][NextTwice]_vars

----------------------------------------------------------------------------
(* Properties of the run.                                                  *)

\* The files validate_file was called on, in order: the progress lines.
Processed ==
    LET at == SelectSeq(stdout, LAMBDA r : r.text = "Validating")
    IN  [i \in 1..Len(at) |-> at[i].name]

\* The run has left validate_all.
Returned == pc \in {"print_summary", "exit", "done"}

RECURSIVE FindingsOf(_)
\* The findings of the files named, one file after the other.
FindingsOf(names) ==
    IF names = <<>> THEN <<>>
    ELSE validate_file(Head(names), FileOf(dir, Head(names)))
         \o FindingsOf(Tail(names))

RECURSIVE CountFindings(_)
\* The number of findings of the files named.
CountFindings(names) ==
    IF names = <<>> THEN 0
    ELSE Len(validate_file(Head(names), FileOf(dir, Head(names))))
         + CountFindings(Tail(names))

\* C1: when the run has exited: with the input directory missing no
\* document was processed and the exit code is 1; otherwise the exit code
\* is 0 exactly when the findings of all processed documents number zero,
\* which is so when there is no candidate document.
C1_ExitCode ==
    pc = "done" =>
        /\ ~dirExists => Processed = <<>> /\ exitCode = 1
        /\ dirExists => (exitCode = 0 <=> CountFindings(Processed) = 0)
        /\ dirExists => exitCode \in {0, 1}
        /\ dirExists /\ AgentFileNames(dir) = {} =>
               Processed = <<>> /\ exitCode = 0

\* A run over two documents, the second one with findings, that exited 1.
C1_Witness ==
    /\ pc = "done"
    /\ dirExists
    /\ Len(Processed) = 2
    /\ CountFindings(<<Processed[1]>>) = 0
    /\ CountFindings(Processed) > 0
    /\ exitCode = 1

\* C6 as stated: the documents are processed in the lexicographic order of
\* their identities, the file names without the extension.
C6_IdentityOrder ==
    \A i \in 1..(Len(Processed) - 1) :
        PathLess(Stem(Processed[i]), Stem(Processed[i + 1]))

\* C6, amended: the documents are processed one at a time in the
\* lexicographic order of their file names, extension included; the
\* findings of the run are the findings of each document in that order;
\* and the run processes every candidate document, whatever the order the
\* loader yielded them in.
C6_FileNameOrder ==
    /\ \A i \in 1..(Len(Processed) - 1) :
           PathLess(Processed[i], Processed[i + 1])
    /\ errors = FindingsOf(Processed)
    /\ Returned /\ dirExists =>
           {Processed[i] : i \in 1..Len(Processed)} = AgentFileNames(dir)

\* The loader yielded a.md before a-b.md; a-b.md was processed first, and
\* both have findings.
C6_Witness ==
    /\ pc = "done"
    /\ agent_files = <<NameA, NameAB>>
    /\ Processed = <<NameAB, NameA>>
    /\ \E i, j \in 1..Len(errors) :
           i < j /\ errors[i].filename = NameAB /\ errors[j].filename = NameA

\* The findings among errs of the file named n / of the other files.
Of(errs, n) == SelectSeq(errs, LAMBDA e : e.filename = n)
NotOf(errs, n) == SelectSeq(errs, LAMBDA e : e.filename # n)

\* The findings of a run over the directory without the file named n.
RunWithout(n) ==
    LET S == AgentFileNames(dir) \ {n}
    IN  IF S = {} THEN <<>>
        ELSE FindingsOf(Sorted(CHOOSE f \in Orders(S) : TRUE))

\* C7: once validate_all has returned, every candidate document that could
\* not be read has exactly one finding, a READ_ERROR, and none of the other
\* kinds; the findings of the other documents are those of a run without
\* it; and every candidate document, those after it too, was validated.
C7_ReadError ==
    Returned /\ dirExists =>
        \A n \in AgentFileNames(dir) :
            ~FileOf(dir, n).readable =>
                /\ Len(Of(errors, n)) = 1
                /\ Of(errors, n)[1].error_type = "READ_ERROR"
                /\ NotOf(errors, n) = RunWithout(n)
                /\ \A m \in AgentFileNames(dir) :
                       \E i \in 1..Len(Processed) : Processed[i] = m

\* An unreadable document was processed first, and a document after it was
\* validated and has findings.
C7_Witness ==
    /\ pc = "done"
    /\ Len(Processed) = 2
    /\ ~FileOf(dir, Processed[1]).readable
    /\ FileOf(dir, Processed[2]).readable
    /\ Len(errors) > 2
    /\ errors[1].error_type = "READ_ERROR"
    /\ errors[2].filename = Processed[2]

\* C8 as stated: a second run on the same documents with the same validator
\* yields the finding sequence and the verdict of the first run.
C8_SecondRunSame ==
    runs = 2 /\ Returned =>
        /\ errors = firstErrors
        /\ success = firstSuccess

\* The reporter printed the pass banner.
PassBanner ==
    \E i \in 1..Len(stdout) :
        stdout[i].text = "All agent specifications passed validation!"

\* C10 as stated: the pass banner is printed only in a run that exits with
\* code 0.
C10_BannerOnlyOnPass ==
    pc = "done" /\ PassBanner => exitCode = 0

----------------------------------------------------------------------------
(* One document under validate_file: the text is typed fragment by         *)
(* fragment, or is the conforming document with lines inserted, and a new  *)
(* validator validates it.                                                 *)

NL == <<"\n">>

\* Fragments for texts of sections: headers "## A" and "## B" (one without
\* its newline, one with a trailing space), a subsection header, a header
\* whose title is blank, two lines of body.
ExtractPool ==
    { Heading(2, "A") \o NL, Heading(2, "A"), Heading(2, "A") \o <<" ">> \o NL,
      Heading(2, "B") \o NL, Heading(3, "A") \o NL,
      <<"#", "#", " ", " ">> \o NL, <<"x">> \o NL, <<"y">> \o NL }

\* Fragments for texts with an ownership section.
OwnerPool ==
    { Heading(2, "Ownership & Maintenance") \o NL,
      Heading(2, "Ownership & Maintenance"),
      Heading(3, "Ownership & Maintenance") \o NL,
      FieldLine("Owner") \o NL,
      FieldLine("Backup Owner") \o NL,
      FieldLine("Last Updated") \o <<" ">> \o FieldLine("Review Frequency") \o NL,
      Heading(3, "Notes") \o NL,
      Heading(2, "Change Log") \o NL }

\* Fragments for texts with a telemetry subsection.
TelemetryPool ==
    { Heading(3, "Events to Track") \o NL,
      Heading(3, "Metrics to Monitor") \o NL,
      Heading(2, "Safety & Security") \o NL,
      EventLine(<<"a">>) \o NL,
      EventLine(<<"b">>) \o NL,
      <<"agent", ".", "b", ".", "x">> \o NL,
      <<"x">> \o NL }

\* Lines put into the conforming document.
DocPool ==
    { Heading(3, "Ownership & Maintenance"), Heading(2, "Change Log"),
      EventLine(<<"b">>), <<Prose>> }

\* The lines of a text whose lines each end with a newline.
DocLines(text) == SubSeq(Split(text), 1, Len(Split(text)) - 1)

IdleRun ==
    /\ pc = "idle"
    /\ dirExists = FALSE
    /\ dir = {}
    /\ agent_files = <<>>
    /\ queue = <<>>
    /\ errors = <<>>
    /\ success = FALSE
    /\ exitCode = -1
    /\ stdout = <<>>
    /\ runs = 0
    /\ firstErrors = <<>>
    /\ firstSuccess = FALSE

InitText ==
    /\ IdleRun
    /\ tpc = "edit"
    /\ filename = NameA
    /\ content = <<>>
    /\ sections = <<>>
    /\ typed = 0
    /\ prevErrors = <<>>
    /\ removed = <<>>

InitDoc ==
    /\ IdleRun
    /\ tpc = "edit"
    /\ filename = NameA
    /\ content = GoodDoc
    /\ sections = <<>>
    /\ typed = 0
    /\ prevErrors = <<>>
    /\ removed = <<>>

\* The author types a fragment at the end of the text.
Type(frag) ==
    /\ tpc = "edit"
    /\ typed < MaxFrags
    /\ content' = content \o frag
    /\ typed' = typed + 1
    /\ UNCHANGED <<tpc, filename, sections, prevErrors, removed, errors>>
    /\ UNCHANGED runVars

\* The author puts a line of DocPool before a line of the document, or
\* after its last line.
InsertLine ==
    /\ tpc = "edit"
    /\ removed = <<>>
    /\ typed < MaxInserts
    /\ LET lines == DocLines(content)
       IN  \E i \in 1..(Len(lines) + 1), l \in DocPool :
               content' = TextOf(PutLine(lines, i, l))
    /\ typed' = typed + 1
    /\ UNCHANGED <<tpc, filename, sections, prevErrors, removed, errors>>
    /\ UNCHANGED runVars

\* validate_file of a new validator on the document, which is readable.
ValidateText ==
    /\ tpc = "edit"
    /\ errors' = errors \o validate_file(filename, [readable |-> TRUE, content |-> content])
    /\ sections' = extract_sections(content)
    /\ tpc' = "validated"
    /\ UNCHANGED <<filename, content, typed, prevErrors, removed>>
    /\ UNCHANGED runVars

\* The author deletes the heading line of a required section from the
\* validated document; a new validator will validate the result.
DeleteHeading ==
    /\ tpc = "validated"
    /\ removed = <<>>
    /\ LET lines == DocLines(content)
       IN  \E i \in 1..Len(lines) :
               LET m == HeaderMatch(lines[i])
               IN  /\ m.match
                   /\ \E k \in 1..Len(REQUIRED_SECTIONS) :
                          Strip(m.group) = Str(REQUIRED_SECTIONS[k])
                   /\ removed' = Strip(m.group)
                   /\ content' = TextOf(DropLine(lines, i))
    /\ prevErrors' = errors
    /\ errors' = <<>>
    /\ sections' = <<>>
    /\ tpc' = "edit"
    /\ UNCHANGED <<filename, typed>>
    /\ UNCHANGED runVars

NextExtract == (\E frag \in ExtractPool : Type(frag)) \/ ValidateText

SpecExtract == InitText /\ [][NextExtract]_vars

NextOwner == (\E frag \in OwnerPool : Type(frag)) \/ ValidateText

SpecOwner == InitText /\ [][NextOwner]_vars

NextTelemetry == (\E frag \in TelemetryPool : Type(frag)) \/ ValidateText

SpecTelemetry == InitText /\ [][NextTelemetry]_vars

NextDoc == InsertLine \/ ValidateText \/ DeleteHeading

SpecDoc == InitDoc /\ [][NextDoc]_vars

----------------------------------------------------------------------------
(* Properties of the validation of one document.                           *)

\* The number of findings of a kind with these details.
Count(errs, kind, details) ==
    Len(SelectSeq(errs, LAMBDA e : e.error_type = kind /\ e.details = details))

\* The number of findings of a kind.
CountKind(errs, kind) ==
    Len(SelectSeq(errs, LAMBDA e : e.error_type = kind))

\* The lines of the text that are "##" headers with this title.
HeaderLines(text, title) ==
    {i \in 1..Len(Split(text)) :
        /\ HeaderMatch(Split(text)[i]).match
        /\ Strip(HeaderMatch(Split(text)[i]).group) = title}

\* The lines after line h up to line nxt, joined by newlines.
Between(text, h, nxt) == Join(SubSeq(Split(text), h + 1, nxt - 1))

\* The lines after line h up to the next "##" header, or to the end of the
\* text, joined by newlines.
BodyToSectionHeader(text, h) ==
    LET L == Split(text)
    IN  Between(text, h,
                Min({j \in (h + 1)..(Len(L) + 1) :
                        j = Len(L) + 1 \/ HeaderMatch(L[j]).match}))

\* The lines after line h up to the next header of any level from the
\* second on (a line that starts with "##"), or to the end of the text.
BodyToAnyHeader(text, h) ==
    LET L == Split(text)
    IN  Between(text, h,
                Min({j \in (h + 1)..(Len(L) + 1) :
                        j = Len(L) + 1 \/ StartsWithAt(L[j], 1, <<"#", "#">>)}))

\* The body of the last occurrence of the header with this title.
LastBody(text, title) ==
    LET hs == HeaderLines(text, title)
    IN  BodyToSectionHeader(text, CHOOSE m \in hs : \A k \in hs : k <= m)

\* The text "## A\nx\n## A\ny\n"
ExampleText ==
    Heading(2, "A") \o NL \o <<"x">> \o NL \o Heading(2, "A") \o NL \o <<"y">> \o NL

\* Every title that heads more than one "##" header of the validated text is
\* one key of the Section Map, mapped to the body of its last occurrence.
LastWins ==
    tpc = "validated" =>
        \A i \in 1..Len(Split(content)) :
            LET m == HeaderMatch(Split(content)[i])
                title == Strip(m.group)
            IN  m.match /\ title # <<>> /\ Cardinality(HeaderLines(content, title)) > 1 =>
                    /\ Cardinality({k \in 1..Len(sections) : sections[k].name = title}) = 1
                    /\ Get(sections, title) = LastBody(content, title)

\* C3 as stated: a repeated header name is mapped to the body of its last
\* occurrence only, and "## A\nx\n## A\ny\n" yields A mapped to "y".
C3_LastWinsExampleY ==
    /\ LastWins
    /\ tpc = "validated" /\ content = ExampleText =>
           Has(sections, <<"A">>) /\ Get(sections, <<"A">>) = <<"y">>

\* C3, amended: a repeated header name is mapped to the body of its last
\* occurrence only: the lines, as split at the newlines, after that header
\* up to the next "##" header or the end of the text, joined by newlines;
\* and "## A\nx\n## A\ny\n" yields A mapped to "y\n", the empty line after
\* the last newline being a line of the body.
C3_LastWinsExampleYNewline ==
    /\ LastWins
    /\ tpc = "validated" /\ content = ExampleText =>
           Has(sections, <<"A">>) /\ Get(sections, <<"A">>) = <<"y", "\n">>

\* The example text was validated: A is mapped to the last body, not "x".
C3_Witness ==
    /\ tpc = "validated"
    /\ content = ExampleText
    /\ Len(sections) = 1
    /\ sections[1] = [name |-> <<"A">>, body |-> <<"y", "\n">>]

\* C2 as stated: for every required section absent from the Section Map,
\* the document gets exactly one MISSING_SECTION finding for it, no
\* MISSING_SUBSECTION finding for a subsection of it and, for Ownership &
\* Maintenance, no MISSING_FIELD finding for an ownership field, and the
\* other checks still report (the Role field).
C2_MissingSectionSuppresses ==
    tpc = "validated" =>
        \A k \in 1..Len(REQUIRED_SECTIONS) :
            LET S == REQUIRED_SECTIONS[k]
            IN  ~Has(sections, Str(S)) =>
                    /\ Count(errors, "MISSING_SECTION", <<S>>) = 1
                    /\ \A i \in 1..Len(errors) :
                           errors[i].error_type = "MISSING_SUBSECTION" =>
                               errors[i].details[2] # S
                    /\ S = "Ownership & Maintenance" =>
                           \A f \in 1..Len(REQUIRED_OWNERSHIP_FIELDS) :
                               Count(errors, "MISSING_FIELD",
                                     <<REQUIRED_OWNERSHIP_FIELDS[f]>>) = 0
                    /\ Count(errors, "MISSING_FIELD", <<"Role">>)
                           = Len(check_role_field(filename, content))

\* The text holds the header once, as a line of its own.
HasHeadingOnce(text, heading) ==
    /\ Cardinality({i \in 1..Len(text) : StartsWithAt(text, i, heading)}) = 1
    /\ \E i \in 1..Len(Split(text)) : Split(text)[i] = heading

\* The line of the text that is the header.
HeadingLine(text, heading) ==
    CHOOSE i \in 1..Len(Split(text)) : Split(text)[i] = heading

\* C9 as stated: for a document with the heading "## Ownership &
\* Maintenance", whose body runs to the next "##" heading or the end of the
\* text, each of the four fields has exactly one MISSING_FIELD finding if
\* its label is not in that body, and none if it is.
C9_OwnershipFields ==
    tpc = "validated"
    /\ HasHeadingOnce(content, Heading(2, "Ownership & Maintenance")) =>
        LET h == HeadingLine(content, Heading(2, "Ownership & Maintenance"))
            body == BodyToSectionHeader(content, h)
        IN  \A f \in 1..Len(REQUIRED_OWNERSHIP_FIELDS) :
                Count(errors, "MISSING_FIELD", <<REQUIRED_OWNERSHIP_FIELDS[f]>>)
                    = IF Contains(body, <<"**", REQUIRED_OWNERSHIP_FIELDS[f], "**", ":">>)
                      THEN 0 ELSE 1

\* C5 as stated: for a document with the header "### Events to Track",
\* whose body runs to the next header of any level or the end of the text,
\* there is exactly one TELEMETRY_NAMING finding if the body holds an event
\* identifier and none of its tokens is the identity of the document, and
\* there is none otherwise.
C5_TelemetryNaming ==
    tpc = "validated"
    /\ HasHeadingOnce(content, Heading(3, "Events to Track")) =>
        LET h == HeadingLine(content, Heading(3, "Events to Track"))
            tokens == FindEvents(BodyToAnyHeader(content, h), 1)
        IN  CountKind(errors, "TELEMETRY_NAMING")
                = IF /\ tokens # <<>>
                     /\ \A i \in 1..Len(tokens) : tokens[i] # Stem(filename)
                  THEN 1 ELSE 0

\* C4 as stated: deleting the one heading line of a required section from a
\* document with no findings leaves exactly one finding, the MISSING_SECTION
\* of that section.
C4_DeleteHeading ==
    tpc = "validated" /\ removed # <<>> /\ prevErrors = <<>>
    /\ ~Has(sections, removed) =>
        errors = <<ValidationError(filename, "MISSING_SECTION", removed)>>

====
